---------------------------- MODULE Spec2Model ----------------------------
(***************************************************************************)
(* A model of the Metro scraper and importer.                              *)
(*                                                                         *)
(*   src/csv_import_script.py  SimpleMetroImporter: the bulk load of the   *)
(*                             metro_source table and the reconciliation   *)
(*                             of the food_item_sources registry           *)
(*   src/metro_scraper.py      MetroProductScraper: category discovery,    *)
(*                             pagination and field extraction             *)
(*                                                                         *)
(* The importer is modelled as a state machine over the two committed      *)
(* tables and the position of the one running operation (ImportSpec).      *)
(***************************************************************************)
EXTENDS Integers, Sequences, FiniteSets, TLC

VARIABLES
    metro_source,       \* committed rows of public.metro_source
    food_item_sources,  \* committed rows of public.food_item_sources
    session,            \* the open connection's uncommitted view of metro_source
    op,                 \* the entry point that is running, "none" when idle
    pc,                 \* the position inside the running operation
    df,                 \* the cleaned data frame of the running load
    batch_size,         \* the batch_size argument of the running load
    i,                  \* the batch loop's offset into df
    result,             \* what the last finished operation returned
    load_ret,           \* what import_csv_to_metro_source returned ("none": not yet)
    update_ret,         \* what update_food_item_sources returned ("none": not yet)
    before,             \* history: metro_source when the running load began
    fail_cause,         \* history: why the running load failed
    recon_stmts,        \* history: reconciliation statements run by this operation
    \* get_product_variant_ids_from_category
    page,               \* the page counter
    all_variant_ids,    \* the identifiers accumulated so far
    pg_pc,              \* "request" in the loop, "done" returned, "raised"
    requests,           \* history: the page numbers requested, in order
    declared,           \* history: the totalPages the non-empty responses declared
    all_nonempty,       \* history: every response so far had a non-empty resultIds
    seen_ids,           \* history: every identifier a resultIds list has held
    \* get_food_subcategories
    tree_response,      \* what _make_request returned for the category tree
    categories,         \* what get_food_subcategories returned, or that it raised
    cat_pc,             \* "call" before, "done" after
    \* extract_product_data
    article_data,       \* the raw record of one article
    product,            \* what extract_product_data returned
    ex_pc,              \* "call" before, "done" after
    \* convert_variant_to_article_id
    variant_id,         \* the identifier handed in, a sequence of characters
    article_id,         \* the identifier returned
    cv_pc,              \* "call" before, "done" after
    \* scrape_all_products
    sc_pc,              \* "categories", "discover", "batches", "done", "raised"
    scan_list,          \* the categories get_food_subcategories returned
    variant_ids,        \* the identifiers accumulated over the categories
    article_ids,        \* the list of distinct article identifiers
    batch_i,            \* the batch loop's offset into article_ids
    all_products,       \* the flat records appended so far
    batch_response,     \* what get_product_details_batch returned last
    scanned,            \* history: per category, how its pagination ended and with what
    detail_requests,    \* history: the batch_ids of every detail request, in order
    rejected_before     \* history: a record of an earlier batch gave no flat record

importVars == <<metro_source, food_item_sources, session, op, pc, df, batch_size,
                i, result, load_ret, update_ret, before, fail_cause, recon_stmts>>

pageVars == <<page, all_variant_ids, pg_pc, requests, declared, all_nonempty, seen_ids>>

treeVars == <<tree_response, categories, cat_pc>>

extractVars == <<article_data, product, ex_pc>>

convertVars == <<variant_id, article_id, cv_pc>>

scrapeVars == <<sc_pc, scan_list, variant_ids, article_ids, batch_i, all_products,
                batch_response, scanned, detail_requests, rejected_before>>

scraperVars == <<pageVars, treeVars, extractVars, convertVars, scrapeVars>>

vars == <<importVars, scraperVars>>

\* The paginator before any call.
NoTotal == [t |-> "none", n |-> 0]

PaginatorIdle ==
    /\ page = 1
    /\ all_variant_ids = {}
    /\ pg_pc = "idle"
    /\ requests = <<>>
    /\ declared = NoTotal
    /\ all_nonempty = TRUE
    /\ seen_ids = {}

NoResponse == [kind |-> "failed", food |-> [children |-> <<>>]]
NoCategories == [ret |-> "none", value |-> <<>>]

WalkerIdle ==
    /\ tree_response = NoResponse
    /\ categories = NoCategories
    /\ cat_pc = "idle"

NoValue == "<None>"
NoNumber == [some |-> FALSE, tenths |-> 0]
NoTable == [present |-> FALSE, rows |-> <<>>]
NoArticle == [variants |-> <<>>]
NoProduct ==
    [rejected |-> TRUE, code |-> NoValue, product_name |-> NoValue,
     energy_100g |-> NoNumber, fat_100g |-> NoNumber, saturated_fat_100g |-> NoNumber,
     proteins_100g |-> NoNumber, carbohydrates_100g |-> NoNumber,
     sugars_100g |-> NoNumber, fiber_100g |-> NoNumber, sodium_100g |-> NoNumber]

ExtractorIdle ==
    /\ article_data = NoArticle
    /\ product = NoProduct
    /\ ex_pc = "idle"

NoBatchResponse == [kind |-> "none", records |-> <<>>]

ConverterIdle ==
    /\ variant_id = <<>>
    /\ article_id = <<>>
    /\ cv_pc = "idle"

ScrapeIdle ==
    /\ sc_pc = "idle"
    /\ scan_list = <<>>
    /\ variant_ids = {}
    /\ article_ids = <<>>
    /\ batch_i = 0
    /\ all_products = <<>>
    /\ batch_response = NoBatchResponse
    /\ scanned = <<>>
    /\ detail_requests = <<>>
    /\ rejected_before = FALSE

ScraperIdle ==
    PaginatorIdle /\ WalkerIdle /\ ExtractorIdle /\ ConverterIdle /\ ScrapeIdle

-----------------------------------------------------------------------------
(* Bounds and inputs of the importer                                       *)

MaxRows == 2

DefaultBatchSize == 1000

NaN == "<NaN>"
SourceTag == "metro"
OtherTag == "off"

\* A row as pd.read_csv returns it: its code and, for the other columns, its
\* product_name.  The code cell may be missing (NaN) or empty.
CsvRows ==
    {[code |-> "a", name |-> "x"], [code |-> "a", name |-> "y"],
     [code |-> "b", name |-> "x"], [code |-> NaN, name |-> "x"],
     [code |-> "", name |-> "x"]}

SeqsUpTo(S, n) == UNION {[1..k -> S] : k \in 0..n}

\* The rows of a readable CSV file.
CsvContents == SeqsUpTo(CsvRows, MaxRows)

BatchSizes == {1, 2, DefaultBatchSize}

NoSession == [open |-> FALSE]
NoResult == [op |-> "none", ret |-> "none"]
NoSnapshot == [taken |-> FALSE]
Snapshot(t) == [taken |-> TRUE, table |-> t]

Min(x, y) == IF x <= y THEN x ELSE y

-----------------------------------------------------------------------------
(* SimpleMetroImporter.clean_csv_data                                      *)

RECURSIVE SelectRows(_)
SelectRows(s) ==
    IF s = <<>> THEN <<>>
    ELSE IF Head(s).code # NaN /\ Head(s).code # ""
         THEN <<Head(s)>> \o SelectRows(Tail(s))
         ELSE SelectRows(Tail(s))

clean_csv_data(rows) == SelectRows(rows)

\* The frames the load can work on: what clean_csv_data makes of a readable file.
CleanedFrames == {clean_csv_data(rows) : rows \in CsvContents}

-----------------------------------------------------------------------------
(* The INSERT ... ON CONFLICT (code) DO UPDATE statement                   *)

Upsert(t, row) == {r \in t : r.code # row.code} \cup {row}

RECURSIVE UpsertAll(_, _)
UpsertAll(t, rows) ==
    IF rows = <<>> THEN t ELSE UpsertAll(Upsert(t, Head(rows)), Tail(rows))

\* One statement may not touch the same key twice: PostgreSQL rejects it.
HasDuplicateCode(rows) ==
    \E j, k \in 1..Len(rows) : j # k /\ rows[j].code = rows[k].code

\* Mutant: the slice runs one row into the next batch.
BatchOffByOne(frame, offset, size) ==
    SubSeq(frame, offset + 1, Min(offset + size + 1, Len(frame)))

Batch(frame, offset, size) ==
    SubSeq(frame, offset + 1, Min(offset + size, Len(frame)))

-----------------------------------------------------------------------------
(* The two statements of update_food_item_sources                          *)

HasTag(sources, tag) == \E k \in 1..Len(sources) : sources[k] = tag

\* Mutant: the update tags every registry row, in the table or not.
UpdateSqlNoExistsGuard(registry, table) ==
    {IF HasTag(r.sources, SourceTag) THEN r
     ELSE [r EXCEPT !.sources = Append(@, SourceTag)] : r \in registry}

\* Mutant: the UPDATE without its NOT ('metro' = ANY (sources)) guard.
UpdateSqlNoTagGuard(registry, table) ==
    {IF \E m \in table : m.code = r.code
       THEN [r EXCEPT !.sources = Append(r.sources, SourceTag)]
       ELSE r
     : r \in registry}

UpdateSql(registry, table) ==
    {IF (\E m \in table : m.code = r.code) /\ ~HasTag(r.sources, SourceTag)
       THEN [r EXCEPT !.sources = Append(r.sources, SourceTag)]
       ELSE r
     : r \in registry}

\* Mutant: the INSERT without its WHERE NOT EXISTS guard.
InsertSqlNoExistsGuard(registry, table) ==
    registry \cup {[code |-> m.code, sources |-> <<SourceTag>>] : m \in table}

InsertSql(registry, table) ==
    registry \cup
    {[code |-> m.code, sources |-> <<SourceTag>>] :
        m \in {m \in table : ~\E r \in registry : r.code = m.code}}

-----------------------------------------------------------------------------
(* Initial state: an empty destination table and a registry filled by      *)
(* another source, one row per code at most.                               *)

InitRegistries == {{}, {[code |-> "a", sources |-> <<OtherTag>>]}}

ImporterIdle ==
    /\ session = NoSession
    /\ op = "none"
    /\ pc = "idle"
    /\ df = <<>>
    /\ batch_size = DefaultBatchSize
    /\ i = 0
    /\ result = NoResult
    /\ load_ret = "none"
    /\ update_ret = "none"
    /\ before = NoSnapshot
    /\ fail_cause = "none"
    /\ recon_stmts = 0

ImportInit ==
    /\ metro_source = {}
    /\ food_item_sources \in InitRegistries
    /\ ImporterIdle
    /\ ScraperIdle

-----------------------------------------------------------------------------
(* import_csv_to_metro_source                                              *)

\* The method returns `ret` (or raises): the finally clause closes the
\* connection, if one is open, and with it the uncommitted view is dropped.
LoadReturns(ret, cause) ==
    /\ session' = NoSession
    /\ fail_cause' = cause
    /\ load_ret' = ret
    /\ pc' = "load_returned"

\* From the call up to and including DELETE FROM public.metro_source.
\* `frame` is clean_csv_data(pd.read_csv(file)) of a readable file.
LoadStart(caller, kind, frame, size) ==
    /\ UNCHANGED scraperVars
    /\ op = "none"
    /\ op' = caller
    /\ batch_size' = size
    /\ i' = 0
    /\ recon_stmts' = 0
    /\ update_ret' = "none"
    /\ result' = NoResult
    /\ before' = Snapshot(metro_source)
    /\ UNCHANGED <<metro_source, food_item_sources>>
    /\ \/ /\ kind = "missing"
          /\ df' = <<>>
          /\ LoadReturns("False", "missing")
       \/ \* read_csv or clean_csv_data raises; the handler then reads the
          \* unbound name conn, and that exception leaves the method
          /\ kind = "unreadable"
          /\ df' = <<>>
          /\ LoadReturns("raised", "unreadable")
       \/ /\ kind = "rows"
          /\ df' = frame
          /\ \/ \* connect() returned None
                LoadReturns("False", "connect")
             \/ \* DELETE raised: rollback, return False
                LoadReturns("False", "delete")
             \/ /\ session' = [open |-> TRUE, table |-> {}]
                /\ pc' = "batches"
                /\ fail_cause' = "none"
                /\ load_ret' = "none"

CallImport ==
    \E size \in BatchSizes :
        \/ LoadStart("import", "missing", <<>>, size)
        \/ LoadStart("import", "unreadable", <<>>, size)
        \/ \E frame \in CleanedFrames : LoadStart("import", "rows", frame, size)

CallRunImport ==
    \/ LoadStart("run_import", "missing", <<>>, DefaultBatchSize)
    \/ LoadStart("run_import", "unreadable", <<>>, DefaultBatchSize)
    \/ \E frame \in CleanedFrames : LoadStart("run_import", "rows", frame, DefaultBatchSize)

\* One pass of the batch loop: execute_values, then commit.
InsertBatch ==
    /\ UNCHANGED scraperVars
    /\ pc = "batches"
    /\ i < Len(df)
    /\ UNCHANGED <<food_item_sources, op, df, batch_size, result, update_ret,
                   recon_stmts>>
    /\ LET batch == Batch(df, i, batch_size) IN
       \/ /\ ~HasDuplicateCode(batch)
          /\ session' = [open |-> TRUE, table |-> UpsertAll(session.table, batch)]
          /\ metro_source' = session'.table
          /\ i' = i + batch_size
          /\ before' = NoSnapshot
          /\ UNCHANGED <<pc, load_ret, fail_cause>>
       \/ \* the statement or the commit fails: rollback, return False
          /\ LoadReturns("False", "batch")
          /\ UNCHANGED <<metro_source, i, before>>

\* The loop is over: return True.
LoopExit ==
    /\ UNCHANGED scraperVars
    /\ pc = "batches"
    /\ i >= Len(df)
    /\ LoadReturns("True", "none")
    /\ UNCHANGED <<metro_source, food_item_sources, op, df, batch_size, i, result,
                   update_ret, before, recon_stmts>>

\* The locals of the load are gone once its caller has the return value.
DropLoadFrame ==
    /\ df' = <<>>
    /\ i' = 0
    /\ batch_size' = DefaultBatchSize
    /\ before' = NoSnapshot
    /\ fail_cause' = "none"

\* The caller of import_csv_to_metro_source receives its return value.
ImportReturn ==
    /\ UNCHANGED scraperVars
    /\ pc = "load_returned"
    /\ op = "import"
    /\ result' = [op |-> "import", ret |-> load_ret]
    /\ op' = "none"
    /\ pc' = "idle"
    /\ load_ret' = "none"
    /\ DropLoadFrame
    /\ UNCHANGED <<metro_source, food_item_sources, session, update_ret, recon_stmts>>

-----------------------------------------------------------------------------
(* run_import                                                              *)

\* Mutant: run_import ignores what the load returned.
ProceedsAlways(ret) == TRUE

\* run_import goes on to the reconciliation only if the load returned True.
ProceedsToReconcile(ret) == ret = "True"

\* Step 1 of run_import is over: return False, or go on to step 2.  An
\* exception of the load is not caught and leaves run_import too.
RunImportAfterLoad ==
    /\ UNCHANGED scraperVars
    /\ pc = "load_returned"
    /\ op = "run_import"
    /\ DropLoadFrame
    /\ UNCHANGED <<metro_source, food_item_sources, session, load_ret, update_ret,
                   recon_stmts>>
    /\ IF load_ret = "raised"
       THEN /\ result' = [op |-> "run_import", ret |-> "raised"]
            /\ op' = "none"
            /\ pc' = "idle"
       ELSE IF ProceedsToReconcile(load_ret)
       THEN /\ pc' = "reconcile"
            /\ UNCHANGED <<op, result>>
       ELSE /\ result' = [op |-> "run_import", ret |-> "False"]
            /\ op' = "none"
            /\ pc' = "idle"

-----------------------------------------------------------------------------
(* update_food_item_sources                                                *)

\* The method returns `ret`: rollback of what is uncommitted, close.
UpdateReturns(ret) ==
    /\ update_ret' = ret
    /\ pc' = "update_returned"

\* The call and connect().  The last result stays readable while the method runs.
UpdateConnect ==
    /\ UNCHANGED scraperVars
    /\ \/ /\ op = "none"
          /\ op' = "update"
          /\ load_ret' = "none"
       \/ /\ op = "run_import"
          /\ pc = "reconcile"
          /\ UNCHANGED <<op, load_ret>>
    /\ recon_stmts' = 0
    /\ UNCHANGED <<metro_source, food_item_sources, session, df, batch_size, i,
                   result, before, fail_cause>>
    /\ \/ /\ pc' = "tag"
          /\ update_ret' = "none"
       \/ \* connect() returned None
          UpdateReturns("False")

\* SET statement_timeout, CREATE INDEX, UPDATE ... array_append, commit
TagExisting ==
    /\ UNCHANGED scraperVars
    /\ pc = "tag"
    /\ recon_stmts' = recon_stmts + 1
    /\ UNCHANGED <<metro_source, session, op, df, batch_size, i, result, load_ret,
                   before, fail_cause>>
    /\ \/ /\ food_item_sources' = UpdateSql(food_item_sources, metro_source)
          /\ pc' = "insert"
          /\ UNCHANGED update_ret
       \/ /\ UpdateReturns("False")
          /\ UNCHANGED food_item_sources

\* INSERT ... WHERE NOT EXISTS, commit
InsertNew ==
    /\ UNCHANGED scraperVars
    /\ pc = "insert"
    /\ recon_stmts' = recon_stmts + 1
    /\ UNCHANGED <<metro_source, session, op, df, batch_size, i, result, load_ret,
                   before, fail_cause>>
    /\ \/ /\ food_item_sources' = InsertSql(food_item_sources, metro_source)
          /\ pc' = "stats"
          /\ UNCHANGED update_ret
       \/ /\ UpdateReturns("False")
          /\ UNCHANGED food_item_sources

\* The three SELECT COUNT(*) statements, then return True
FinalStatistics ==
    /\ UNCHANGED scraperVars
    /\ pc = "stats"
    /\ recon_stmts' = recon_stmts + 1
    /\ UNCHANGED <<metro_source, food_item_sources, session, op, df, batch_size, i,
                   result, load_ret, before, fail_cause>>
    /\ \/ UpdateReturns("True")
       \/ UpdateReturns("False")

\* The caller of update_food_item_sources receives its return value; run_import
\* returns True after a True and False after a False.
UpdateReturn ==
    /\ UNCHANGED scraperVars
    /\ pc = "update_returned"
    /\ result' = [op |-> op, ret |-> update_ret]
    /\ op' = "none"
    /\ pc' = "idle"
    /\ load_ret' = "none"
    /\ update_ret' = "none"
    /\ recon_stmts' = 0
    /\ UNCHANGED <<metro_source, food_item_sources, session, df, batch_size, i,
                   before, fail_cause>>

ImportNext ==
    \/ CallImport
    \/ CallRunImport
    \/ InsertBatch
    \/ LoopExit
    \/ ImportReturn
    \/ RunImportAfterLoad
    \/ UpdateConnect
    \/ TagExisting
    \/ InsertNew
    \/ FinalStatistics
    \/ UpdateReturn

ImportSpec == ImportInit /\ [][ImportNext]_vars

-----------------------------------------------------------------------------
(* Properties of the importer                                              *)

\* The records of a frame keyed by code: of several rows with one code the
\* last one counts.
LastByCode(frame) ==
    {frame[j] : j \in {j \in 1..Len(frame) :
                         \A k \in (j + 1)..Len(frame) : frame[k].code # frame[j].code}}

TagSet(sources) == {sources[k] : k \in 1..Len(sources)}

LoadReturned(ret) == pc = "load_returned" /\ load_ret = ret

\* The number (from 1) of the batch the loop is at.
BatchNumber == (i \div batch_size) + 1

\* C1: whenever import_csv_to_metro_source returns True, the committed
\* metro_source table holds exactly the records of that run, keyed by code.
C1_FullReplace ==
    LoadReturned("True") => metro_source = LastByCode(df)

\* The same for the runs that passed at least one record.
FullReplaceOfNonEmptyLoad ==
    LoadReturned("True") /\ df # <<>> => metro_source = LastByCode(df)

\* C2: when an insert batch fails the load returns False with the connection
\* closed; if the failing batch is batch k >= 2 the committed table holds
\* exactly batches 1..k-1 of this run, and if it is the first batch the
\* table is what it was before the run.
C2_BatchFailure ==
    pc = "load_returned" /\ fail_cause = "batch" =>
        /\ load_ret = "False"
        /\ session = NoSession
        /\ IF BatchNumber >= 2
           THEN metro_source = LastByCode(SubSeq(df, 1, i))
           ELSE before.taken /\ metro_source = before.table

\* A load whose second or later batch failed after a first batch replaced
\* a table that held other rows.
C2_Witness ==
    /\ pc = "load_returned"
    /\ fail_cause = "batch"
    /\ BatchNumber >= 2
    /\ i < Len(df)
    /\ metro_source # {}

\* A load whose first batch failed over a table that held rows.
C2_WitnessFirstBatch ==
    /\ pc = "load_returned"
    /\ fail_cause = "batch"
    /\ BatchNumber = 1
    /\ before.taken
    /\ before.table # {}

ReconcileSucceeded ==
    result.ret = "True" /\ result.op \in {"update", "run_import"}

\* C3: while update_food_item_sources runs directly after a run that
\* returned True (the table untouched in between), no step changes the
\* registry.
C3_ReconcileIdempotent ==
    [][(op = "update" /\ ReconcileSucceeded)
          => food_item_sources' = food_item_sources]_vars

\* The second run is past both statements, over a table with rows and a
\* registry in which the first run tagged an existing row and inserted one.
C3_Witness ==
    /\ op = "update"
    /\ ReconcileSucceeded
    /\ pc = "stats"
    /\ \E r \in food_item_sources : r.sources = <<OtherTag, SourceTag>>
    /\ \E r \in food_item_sources : r.sources = <<SourceTag>>
    /\ \A m \in metro_source : \E r \in food_item_sources : r.code = m.code
    /\ metro_source # {}

RegistryKeyUnique ==
    \A r1, r2 \in food_item_sources : r1.code = r2.code => r1 = r2

TagsOnlyAdded ==
    \A r \in food_item_sources :
        \E r2 \in food_item_sources' :
            r2.code = r.code /\ TagSet(r.sources) \subseteq TagSet(r2.sources)

\* C4: every code has at most one registry row, and no step removes a
\* registry row or a tag of a row.
C4_RegistryMonotone ==
    []RegistryKeyUnique /\ [][TagsOnlyAdded]_vars

\* A row keeps its metro tag after its code has left the destination table.
C4_Witness ==
    /\ op = "none"
    /\ \E r \in food_item_sources :
          /\ TagSet(r.sources) = {OtherTag, SourceTag}
          /\ ~\E m \in metro_source : m.code = r.code
    /\ metro_source # {}

InReconcile == pc \in {"reconcile", "tag", "insert", "stats", "update_returned"}

\* C5: in run_import the reconciliation is entered only after the load
\* returned True; until then no step changes the registry or runs a
\* reconciliation statement, and a load that returned False ends the run
\* with False.
C5_ReconcileOnlyAfterLoad ==
    /\ [](op = "run_import" /\ InReconcile => load_ret = "True")
    /\ [][(op = "run_import" /\ load_ret # "True") =>
            /\ food_item_sources' = food_item_sources
            /\ recon_stmts' = 0
            /\ (LoadReturned("False") =>
                   op' = "none" /\ result' = [op |-> "run_import", ret |-> "False"])
         ]_vars

\* run_import's load failed at a batch, over a registry with rows.
C5_Witness ==
    /\ op = "run_import"
    /\ LoadReturned("False")
    /\ fail_cause = "batch"
    /\ food_item_sources # {}
    /\ recon_stmts = 0

\* C14: run_import ends with True or False, never with an exception, and
\* it is about to return True only after a load that returned True.
C14_SingleResult ==
    /\ (op = "run_import" => load_ret # "raised")
    /\ (result.op = "run_import" => result.ret \in {"True", "False"})
    /\ (op = "run_import" /\ pc = "update_returned" /\ update_ret = "True"
          => load_ret = "True")

\* run_import's result becomes True only in the step that hands over the
\* True of the reconciliation, after a load that returned True.
RunImportSuccessAfterBoth ==
    [][(result'.op = "run_import" /\ result'.ret = "True" /\ result' # result)
          => load_ret = "True" /\ update_ret = "True"]_vars

\* Without an unreadable file run_import ends with True or False.
ResultUnlessUnreadable ==
    /\ (op = "run_import" /\ load_ret = "raised" => fail_cause = "unreadable")
    /\ (result.op = "run_import" => result.ret \in {"True", "False", "raised"})

UpdateSucceeded == pc = "update_returned" /\ update_ret = "True"

\* Every code of the destination table has exactly one registry row, and
\* that row carries the source tag.
TableCodesTagged ==
    \A m \in metro_source :
        /\ \E r \in food_item_sources : r.code = m.code /\ HasTag(r.sources, SourceTag)
        /\ \A r1, r2 \in food_item_sources :
              r1.code = m.code /\ r2.code = m.code => r1 = r2

InTable(code) == \E m \in metro_source : m.code = code

\* The registry rows whose code is not in the destination table are the
\* same before and after the step.
OtherRowsUnchanged ==
    {r \in food_item_sources : ~InTable(r.code)}
        = {r \in food_item_sources' : ~InTable(r.code)}

\* C16: when update_food_item_sources returns True, every code of the
\* destination table has exactly one registry row and that row carries the
\* tag 'metro'; no step of the reconciliation changes, adds or removes a
\* registry row whose code is not in the destination table.
C16_ReconcileTagsTableCodes ==
    /\ [](UpdateSucceeded => TableCodesTagged)
    /\ [][(pc \in {"tag", "insert", "stats"}) => OtherRowsUnchanged]_vars

\* A successful reconciliation gave a code of the table its registry row and
\* left alone the row of another source whose code is not in the table.
C16_Witness ==
    /\ UpdateSucceeded
    /\ \E r \in food_item_sources : r.sources = <<SourceTag>> /\ InTable(r.code)
    /\ \E r \in food_item_sources : r.sources = <<OtherTag>> /\ ~InTable(r.code)

-----------------------------------------------------------------------------
(* MetroProductScraper.get_product_variant_ids_from_category                *)

SafetyLimit == 100

\* The page counter stops here whatever the loop's own exits do.
MaxPage == 102

MaxPageIds == 2

VariantIds == {"v1", "v2"}

AbsentTotal == [t |-> "absent", n |-> 0]
BadTotal == [t |-> "bad", n |-> 0]
MixedTotal == [t |-> "mixed", n |-> 0]
IntTotal(n) == [t |-> "int", n |-> n]

\* What a response holds under 'totalPages': nothing, a number, or a value
\* that is no number (a string, null).
TotalPages ==
    {AbsentTotal, BadTotal}
      \cup {IntTotal(n) : n \in {0, 1, 2, 3, SafetyLimit - 1, SafetyLimit,
                                 SafetyLimit + 1, 250}}

\* What _make_request returns for one page: None ("failed"), JSON without
\* 'resultIds' ("no_result_ids"), a 'resultIds' that is true and cannot be
\* iterated, such as a number ("not_iterable"), or a list of identifiers.
PageResponses ==
    {[kind |-> k, ids |-> <<>>, total |-> AbsentTotal] :
        k \in {"failed", "no_result_ids", "not_iterable"}}
      \cup [kind : {"ids"}, ids : SeqsUpTo(VariantIds, MaxPageIds), total : TotalPages]

ToSet(list) == {list[k] : k \in 1..Len(list)}

\* response.get('totalPages', 1)
TotalOf(response) ==
    IF response.total = AbsentTotal THEN 1 ELSE response.total.n

\* Mutant: the comparison with the declared total is strict.
IsLastPageStrict(p, total) == p > total

\* page >= response.get('totalPages', 1)
IsLastPage(p, total) == p >= total

\* Mutant: the loop has no safety limit.
NoSafetyLimit(p) == FALSE

\* page >= 100
ReachedSafetyLimit(p) == p >= SafetyLimit

PaginateInit ==
    /\ metro_source = {}
    /\ food_item_sources = {}
    /\ ImporterIdle
    /\ WalkerIdle
    /\ ExtractorIdle
    /\ ConverterIdle
    /\ ScrapeIdle
    /\ page = 1
    /\ all_variant_ids = {}
    /\ pg_pc = "request"
    /\ requests = <<>>
    /\ declared = NoTotal
    /\ all_nonempty = TRUE
    /\ seen_ids = {}

\* One pass of the while loop: the request of page `page` and what follows it.
RequestPage ==
    /\ pg_pc = "request"
    /\ page <= MaxPage
    /\ UNCHANGED <<importVars, treeVars, extractVars, convertVars, scrapeVars>>
    /\ \E response \in PageResponses :
        /\ requests' = Append(requests, page)
        /\ seen_ids' = seen_ids \cup ToSet(response.ids)
        /\ all_nonempty' = (all_nonempty /\ response.kind = "ids" /\ response.ids # <<>>)
        /\ declared' = IF response.kind # "ids" \/ response.ids = <<>> THEN declared
                       ELSE IF declared \in {NoTotal, response.total}
                       THEN response.total
                       ELSE MixedTotal
        /\ IF response.kind \in {"failed", "no_result_ids"} \/
              (response.kind = "ids" /\ response.ids = <<>>)
           THEN \* break
                /\ pg_pc' = "done"
                /\ UNCHANGED <<page, all_variant_ids>>
           ELSE IF response.kind = "not_iterable"
           THEN \* all_variant_ids.update raises TypeError
                /\ pg_pc' = "raised"
                /\ UNCHANGED <<page, all_variant_ids>>
           ELSE /\ all_variant_ids' = all_variant_ids \cup ToSet(response.ids)
                /\ IF response.total = BadTotal
                   THEN \* the comparison with page raises TypeError
                        /\ pg_pc' = "raised"
                        /\ UNCHANGED page
                   ELSE IF IsLastPage(page, TotalOf(response)) \/ ReachedSafetyLimit(page)
                   THEN /\ pg_pc' = "done"
                        /\ UNCHANGED page
                   ELSE /\ pg_pc' = "request"
                        /\ page' = page + 1

PaginateNext == RequestPage

\* Every request ends: the session's timeout is 30 seconds.
PaginateSpec == PaginateInit /\ [][PaginateNext]_vars /\ WF_vars(PaginateNext)

-----------------------------------------------------------------------------
(* Properties of the paginator                                             *)

FirstPages(n) == [k \in 1..n |-> k]

DeclaresOneTotal ==
    /\ all_nonempty
    /\ declared.t = "int"
    /\ declared.n \in 1..SafetyLimit

\* C6: when every response has a non-empty identifier list and declares the
\* same total N, 1 <= N <= 100, the pages requested are 1, 2, ... in
\* increasing order, never one past N, and at the return they are exactly
\* 1..N and the set returned is the union of the identifiers of those pages.
C6_PagesOneToN ==
    DeclaresOneTotal =>
        /\ requests = FirstPages(Len(requests))
        /\ Len(requests) <= declared.n
        /\ pg_pc # "raised"
        /\ pg_pc = "done" =>
              /\ Len(requests) = declared.n
              /\ all_variant_ids = seen_ids

\* Three non-empty pages of a declared total of three, with a repeated
\* identifier counted once.
C6_Witness ==
    /\ DeclaresOneTotal
    /\ declared.n = 3
    /\ pg_pc = "done"
    /\ requests = <<1, 2, 3>>
    /\ all_variant_ids = VariantIds

\* C7: the pagination of one category ends, and it never requests more than
\* 100 pages, whatever totals the responses declare.
C7_PaginationBounded ==
    /\ [](Len(requests) <= SafetyLimit)
    /\ <>(pg_pc # "request")

\* The loop left at the safety limit under a declared total beyond it.
C7_Witness ==
    /\ pg_pc = "done"
    /\ Len(requests) = SafetyLimit
    /\ declared.t \in {"int", "mixed"}
    /\ all_nonempty

-----------------------------------------------------------------------------
(* MetroProductScraper.get_food_subcategories                               *)

MaxChildren == 2

\* A category path is a string; here a sequence of pieces of it, so that
\* startswith is the prefix test.  RootCategory stands for the food root.
RootCategory == <<"food">>

CategoryPaths ==
    {<<>>, RootCategory, RootCategory \o <<"/dairy">>, RootCategory \o <<"-extra">>,
     <<"drinks">>}

StartsWith(path, prefix) ==
    Len(path) >= Len(prefix) /\ SubSeq(path, 1, Len(prefix)) = prefix

\* The nodes of the tree: urlCategoryPath ('' when the key is missing) and the
\* values of the 'children' mapping in its order (none when the key is missing).
LeafNodes == [path : CategoryPaths, children : {<<>>}]
InnerNodes == [path : CategoryPaths, children : SeqsUpTo(LeafNodes, 1)]
FoodTrees == [children : SeqsUpTo(InnerNodes, MaxChildren)]

\* What _make_request returns for the tree: None ("failed"), {} ("empty"),
\* JSON without 'categorytree' ("no_tree"), a 'categorytree' without
\* 'children' ("tree_no_children"), a 'categorytree' that is no mapping, such
\* as null ("tree_not_mapping"), children without the food node
\* ("no_food_node"), or the food node and its subtree ("food").
TreeResponses ==
    {[kind |-> k, food |-> [children |-> <<>>]] :
        k \in {"failed", "empty", "no_tree", "tree_no_children", "tree_not_mapping",
               "no_food_node"}}
      \cup [kind : {"food"}, food : FoodTrees]

\* category_path and category_path.startswith(root)
TakesPath(path) == path # <<>> /\ StartsWith(path, RootCategory)

RECURSIVE extract_categories(_)
extract_categories(children) ==
    IF children = <<>> THEN <<>>
    ELSE LET child == Head(children) IN
         (IF TakesPath(child.path)
            THEN <<child.path>> \o extract_categories(child.children)
            ELSE <<>>)
           \o extract_categories(Tail(children))

get_food_subcategories(response) ==
    IF response.kind \in {"failed", "empty", "no_tree"}
    THEN [ret |-> "value", value |-> <<RootCategory>>]
    ELSE IF response.kind \in {"tree_no_children", "tree_not_mapping"}
    THEN \* response['categorytree']['children'] raises KeyError or TypeError
         [ret |-> "raised", value |-> <<>>]
    ELSE LET found == IF response.kind = "no_food_node" THEN <<>>
                      ELSE extract_categories(response.food.children)
         IN [ret |-> "value",
             value |-> IF found = <<>> THEN <<RootCategory>> ELSE found]

WalkerInit ==
    /\ metro_source = {}
    /\ food_item_sources = {}
    /\ ImporterIdle
    /\ PaginatorIdle
    /\ ExtractorIdle
    /\ ConverterIdle
    /\ ScrapeIdle
    /\ tree_response \in TreeResponses
    /\ categories = NoCategories
    /\ cat_pc = "call"

GetFoodSubcategories ==
    /\ cat_pc = "call"
    /\ categories' = get_food_subcategories(tree_response)
    /\ cat_pc' = "done"
    /\ UNCHANGED <<importVars, pageVars, extractVars, convertVars, scrapeVars,
                   tree_response>>

WalkerNext == GetFoodSubcategories

WalkerSpec == WalkerInit /\ [][WalkerNext]_vars

-----------------------------------------------------------------------------
(* Properties of the category walker                                       *)

\* No path of the food node's subtree would be taken.
YieldsNoPath(response) ==
    \/ response.kind # "food"
    \/ \A k \in 1..Len(response.food.children) :
          ~StartsWith(response.food.children[k].path, RootCategory)

\* C8: get_food_subcategories always returns a non-empty sequence of paths:
\* the root alone when the request failed, the response is malformed or the
\* tree yields no path, and otherwise paths that all start with the root.
C8_NeverEmpty ==
    cat_pc = "done" =>
        /\ categories.ret = "value"
        /\ categories.value # <<>>
        /\ YieldsNoPath(tree_response) => categories.value = <<RootCategory>>
        /\ \A k \in 1..Len(categories.value) :
              StartsWith(categories.value[k], RootCategory)

\* What holds of every call that returns.
ReturnedPathsUnderRoot ==
    cat_pc = "done" /\ categories.ret = "value" =>
        /\ categories.value # <<>>
        /\ YieldsNoPath(tree_response) => categories.value = <<RootCategory>>
        /\ \A k \in 1..Len(categories.value) :
              StartsWith(categories.value[k], RootCategory)

-----------------------------------------------------------------------------
(* MetroProductScraper.extract_nutritional_value, extract_product_data      *)

MaxTableRows == 2

\* Numbers are counted in tenths: 2500 is 250.0.
Number(tenths) == [some |-> TRUE, tenths |-> tenths]

\* The keywords a lower-cased row label can contain; each stands for the
\* Bulgarian keyword of extract_product_data: "energy" for the energy value
\* keyword, "fat", "saturated", "proteins", "carbohydrates", "sugars",
\* "fiber" (two spellings), and "sodium".
EnergyKeywords == {"energy"}
RowLabels == {{"energy"}, {"sodium"}}

\* The first cell of a row: its 'value' (NoValue: missing, None or '') and
\* its lower-cased 'unitOfMeasure'.
Cells ==
    {[value |-> NoValue, unit |-> "kcal"], [value |-> "abc", unit |-> "kcal"],
     [value |-> "0", unit |-> "kcal"], [value |-> "250", unit |-> "kcal"],
     [value |-> "1046", unit |-> "kj"], [value |-> "2", unit |-> "g"]}

TableRows == [keywords : RowLabels, cells : {<<>>} \cup {<<c>> : c \in Cells}]

\* details.get('nutritionalTable', {}): missing or empty, or with its rows.
NutritionTables ==
    {NoTable} \cup [present : {TRUE}, rows : SeqsUpTo(TableRows, MaxTableRows)]

\* An entry of an EAN or GTIN list: its 'number' (NoValue: missing or None).
EanEntries == {[number |-> n] : n \in {NoValue, "", "5901234123457"}}
GtinEntries == {[number |-> n] : n \in {NoValue, "4001234123457"}}

\* The first bundle of the first variant.  ill_typed: a value further down
\* (a category entry, a feature) is no mapping, so reading it raises.
Bundles ==
    [eanNumber : SeqsUpTo(EanEntries, 1), gtins : SeqsUpTo(GtinEntries, 1),
     description : {"", "Milk"}, ill_typed : BOOLEAN, table : NutritionTables]

\* The raw records: no variant, a variant without bundles, or a bundle.
Articles ==
    {[variants |-> <<>>], [variants |-> <<[bundles |-> <<>>]>>]}
      \cup {[variants |-> <<[bundles |-> <<b>>]>>] : b \in Bundles}

IsNumeric(value) == value \in {"0", "250", "1046", "2"}

\* float(value), in tenths
Float(value) ==
    CASE value = "0" -> 0
      [] value = "250" -> 2500
      [] value = "1046" -> 10460
      [] value = "2" -> 20

\* x / y rounded to the nearest integer, x >= 0 and y > 0
RoundDiv(x, y) == (2 * x + y) \div (2 * y)

\* round(energy_kj / 4.184, 1), in tenths
KjToKcal(tenths) == RoundDiv(tenths * 1000, 4184)

\* The value of the first row whose label holds a keyword and whose first
\* cell holds a number; grams become milligrams when milligrams are asked for.
RECURSIVE ScanRows(_, _, _)
ScanRows(rows, label_keywords, unit) ==
    IF rows = <<>> THEN NoNumber
    ELSE LET row == Head(rows) IN
         IF /\ row.keywords \cap label_keywords # {}
            /\ Len(row.cells) >= 1
            /\ row.cells[1].value # NoValue
            /\ IsNumeric(row.cells[1].value)
         THEN LET value == Float(row.cells[1].value) IN
              IF unit # row.cells[1].unit /\ unit = "mg" /\ row.cells[1].unit = "g"
              THEN Number(value * 1000)
              ELSE Number(value)
         ELSE ScanRows(Tail(rows), label_keywords, unit)

extract_nutritional_value(nutrition_table, label_keywords, unit) ==
    IF ~nutrition_table.present THEN NoNumber
    ELSE ScanRows(nutrition_table.rows, label_keywords, unit)

\* not x, for a number or None
Falsy(number) == ~number.some \/ number.tenths = 0

\* energy_100g after the special handling of kJ
EnergyOf(nutrition_table) ==
    LET energy == extract_nutritional_value(nutrition_table, EnergyKeywords, "kcal")
        energy_kj == extract_nutritional_value(nutrition_table, EnergyKeywords, "kj")
    IN IF Falsy(energy) /\ ~Falsy(energy_kj)
       THEN Number(KjToKcal(energy_kj.tenths))
       ELSE energy

\* Mutant: a record without a barcode is kept.
KeepsAnyCode(code) == FALSE

\* not code
RejectsCode(code) == code \in {NoValue, ""}

\* bundle.get('eanNumber', []) or bundle.get('gtins', []), then the first
\* entry's number
BarcodeOf(bundle) ==
    LET ean_numbers == IF bundle.eanNumber # <<>> THEN bundle.eanNumber
                       ELSE bundle.gtins
    IN IF ean_numbers # <<>> THEN ean_numbers[1].number ELSE NoValue

extract_product_data(article) ==
    IF article.variants = <<>> THEN NoProduct
    ELSE IF article.variants[1].bundles = <<>> THEN NoProduct
    ELSE LET bundle == article.variants[1].bundles[1]
             code == BarcodeOf(bundle)
             table == bundle.table
         IN IF RejectsCode(code) THEN NoProduct
            ELSE IF bundle.ill_typed
            THEN \* the exception is caught and logged
                 NoProduct
            ELSE [rejected |-> FALSE,
                  code |-> code,
                  product_name |-> IF bundle.description = "" THEN NoValue
                                   ELSE bundle.description,
                  energy_100g |-> EnergyOf(table),
                  fat_100g |-> extract_nutritional_value(table, {"fat"}, "g"),
                  saturated_fat_100g |->
                      extract_nutritional_value(table, {"saturated"}, "g"),
                  proteins_100g |-> extract_nutritional_value(table, {"proteins"}, "g"),
                  carbohydrates_100g |->
                      extract_nutritional_value(table, {"carbohydrates"}, "g"),
                  sugars_100g |-> extract_nutritional_value(table, {"sugars"}, "g"),
                  fiber_100g |-> extract_nutritional_value(table, {"fiber"}, "g"),
                  sodium_100g |-> extract_nutritional_value(table, {"sodium"}, "mg")]

ExtractInit ==
    /\ metro_source = {}
    /\ food_item_sources = {}
    /\ ImporterIdle
    /\ PaginatorIdle
    /\ WalkerIdle
    /\ ConverterIdle
    /\ ScrapeIdle
    /\ article_data \in Articles
    /\ product = NoProduct
    /\ ex_pc = "call"

ExtractProductData ==
    /\ ex_pc = "call"
    /\ product' = extract_product_data(article_data)
    /\ ex_pc' = "done"
    /\ UNCHANGED <<importVars, pageVars, treeVars, convertVars, scrapeVars,
                   article_data>>

ExtractNext == ExtractProductData

ExtractSpec == ExtractInit /\ [][ExtractNext]_vars

-----------------------------------------------------------------------------
(* Properties of the field extractor                                       *)

HasBundle(article) ==
    article.variants # <<>> /\ article.variants[1].bundles # <<>>

TheBundle(article) == article.variants[1].bundles[1]

\* The energy rows of a table that hold a number in the given unit.
EnergyRows(table, unit) ==
    {k \in 1..Len(table.rows) :
        /\ table.rows[k].keywords \cap EnergyKeywords # {}
        /\ table.rows[k].cells # <<>>
        /\ IsNumeric(table.rows[k].cells[1].value)
        /\ table.rows[k].cells[1].unit = unit}

FirstOf(S) == CHOOSE k \in S : \A j \in S : k <= j

RowValue(table, k) == Float(table.rows[k].cells[1].value)

\* C9: of a record with a kcal energy row energy_100g is that row's value
\* unchanged; of a record whose only energy row is in kJ with value v it is
\* v / 4.184 rounded to one decimal place.
C9_EnergyInKcal ==
    ex_pc = "done" /\ ~product.rejected =>
        LET table == TheBundle(article_data).table
            kcal == EnergyRows(table, "kcal")
            kj == EnergyRows(table, "kj")
        IN /\ kcal # {} =>
                product.energy_100g = Number(RowValue(table, FirstOf(kcal)))
           /\ kcal = {} /\ kj # {} =>
                product.energy_100g = Number(KjToKcal(RowValue(table, FirstOf(kj))))

\* What the code does: energy_100g is the number of the first energy row
\* that holds one, whatever its unit.
EnergyIsFirstNumber ==
    ex_pc = "done" /\ ~product.rejected =>
        LET table == TheBundle(article_data).table
            rows == EnergyRows(table, "kcal") \cup EnergyRows(table, "kj")
                       \cup EnergyRows(table, "g")
        IN IF rows = {} THEN product.energy_100g = NoNumber
           ELSE product.energy_100g = Number(RowValue(table, FirstOf(rows)))

HasNumber(entries) == entries # <<>> /\ entries[1].number \notin {NoValue, ""}

\* A number stands first in the EAN list or first in the GTIN list.
BarcodeObtainable(article) ==
    /\ HasBundle(article)
    /\ \/ HasNumber(TheBundle(article).eanNumber)
       \/ HasNumber(TheBundle(article).gtins)

\* A well-typed record whose EAN list, or without one whose GTIN list,
\* starts with a number.
HasBarcode(article) ==
    /\ HasBundle(article)
    /\ ~TheBundle(article).ill_typed
    /\ \/ HasNumber(TheBundle(article).eanNumber)
       \/ TheBundle(article).eanNumber = <<>> /\ HasNumber(TheBundle(article).gtins)

NutritionFields ==
    {"energy_100g", "fat_100g", "saturated_fat_100g", "proteins_100g",
     "carbohydrates_100g", "sugars_100g", "fiber_100g", "sodium_100g"}

-----------------------------------------------------------------------------
(* MetroProductScraper.convert_variant_to_article_id                        *)

MaxIdLen == 6

SuffixLen == 4

\* The characters of which str.isdigit is true, as far as they are ASCII.
DigitChars == {"0", "1", "2", "3", "4", "5", "6", "7", "8", "9"}

IdChars == {"A", "-", "0", "7"}

\* The identifier of the method's docstring and the article it stands for.
DocVariantId ==
    <<"B", "T", "Y", "-", "X", "2", "9", "4", "5", "5", "0", "0", "0", "3", "2">>
DocArticleId == <<"B", "T", "Y", "-", "X", "2", "9", "4", "5", "5", "0">>

Identifiers == SeqsUpTo(IdChars, MaxIdLen) \cup {DocVariantId}

\* variant_id[-4:].isdigit(), for an identifier of 4 characters or more
SuffixIsDigits(id) ==
    \A k \in (Len(id) - SuffixLen + 1)..Len(id) : id[k] \in DigitChars

\* Mutant: an identifier of exactly 4 characters is long enough.
LongEnoughInclusive(id) == Len(id) >= SuffixLen

\* len(variant_id) > 4
LongEnough(id) == Len(id) > SuffixLen

convert_variant_to_article_id(id) ==
    IF LongEnough(id) /\ SuffixIsDigits(id)
    THEN SubSeq(id, 1, Len(id) - SuffixLen)
    ELSE id

ConvertInit ==
    /\ metro_source = {}
    /\ food_item_sources = {}
    /\ ImporterIdle
    /\ PaginatorIdle
    /\ WalkerIdle
    /\ ExtractorIdle
    /\ ScrapeIdle
    /\ variant_id \in Identifiers
    /\ article_id = <<>>
    /\ cv_pc = "call"

ConvertVariantToArticleId ==
    /\ cv_pc = "call"
    /\ article_id' = convert_variant_to_article_id(variant_id)
    /\ cv_pc' = "done"
    /\ UNCHANGED <<importVars, pageVars, treeVars, extractVars, scrapeVars, variant_id>>

ConvertNext == ConvertVariantToArticleId

ConvertSpec == ConvertInit /\ [][ConvertNext]_vars

-----------------------------------------------------------------------------
(* Properties of the conversion                                            *)

EndsInFourDigits(id) ==
    /\ Len(id) >= 4
    /\ \A k \in 0..3 : id[Len(id) - k] \in DigitChars

\* C11: of an identifier longer than 4 characters that ends in 4 digits the
\* conversion removes exactly the last 4 characters; every other identifier
\* is returned unchanged.
C11_StripsNumericSuffix ==
    cv_pc = "done" =>
        IF Len(variant_id) > 4 /\ EndsInFourDigits(variant_id)
        THEN /\ Len(article_id) = Len(variant_id) - 4
             /\ \A k \in 1..Len(article_id) : article_id[k] = variant_id[k]
        ELSE article_id = variant_id

\* The docstring's identifier was converted to the docstring's article.
C11_Witness ==
    /\ cv_pc = "done"
    /\ variant_id = DocVariantId
    /\ article_id = DocArticleId

\* An identifier of four digits and no more came back unchanged.
FourDigitsUnchanged ==
    /\ cv_pc = "done"
    /\ variant_id = <<"0", "7", "0", "7">>
    /\ article_id = variant_id

-----------------------------------------------------------------------------
(* MetroProductScraper.get_all_product_variant_ids, scrape_all_products     *)

MaxArticles == 21

MaxScanPages == 2

MaxBatchRecords == 2

DetailBatchSize == 20

Digits == <<"0", "1", "2", "3", "4", "5", "6", "7", "8", "9">>

\* The identifier of article n, n < 100, and of one of its variants.
ArticleIdOf(n) == <<"B", "-", Digits[(n \div 10) + 1], Digits[(n % 10) + 1]>>
VariantOf(n, suffix) == ArticleIdOf(n) \o suffix

FirstSuffix == <<"0", "0", "3", "2">>
SecondSuffix == <<"0", "0", "4", "1">>

\* An identifier without a numeric suffix to strip.
PlainId == <<"A", "B", "1", "2">>

\* The non-empty resultIds lists of a page: one variant of every article, or
\* a second variant of two of the articles and a plain identifier.
ResultIdLists ==
    {[n \in 1..MaxArticles |-> VariantOf(n, FirstSuffix)],
     <<VariantOf(1, SecondSuffix), VariantOf(2, SecondSuffix), PlainId>>}

FailedResponse == [kind |-> "failed", ids |-> <<>>, total |-> AbsentTotal]

\* What _make_request returns for one page, as in PageResponses; "ids" with
\* no identifier is the empty resultIds list.
ScanResponses ==
    {[kind |-> k, ids |-> <<>>, total |-> AbsentTotal] :
        k \in {"failed", "no_result_ids", "not_iterable", "ids"}}
      \cup [kind : {"ids"}, ids : ResultIdLists,
            total : {AbsentTotal, BadTotal, IntTotal(2)}]

\* What the server answers to the requests of one category, page by page;
\* a request past the end of the script fails.
CategoryScripts == SeqsUpTo(ScanResponses, MaxScanPages)

\* The while loop of get_product_variant_ids_from_category from page p on,
\* with `ids` accumulated: the set it returns, or that it raises and what
\* it had accumulated by then.
RECURSIVE PaginateFrom(_, _, _)
PaginateFrom(p, ids, script) ==
    LET response == IF p <= Len(script) THEN script[p] ELSE FailedResponse IN
    IF response.kind \in {"failed", "no_result_ids"} \/
       (response.kind = "ids" /\ response.ids = <<>>)
    THEN [ret |-> "returned", ids |-> ids]
    ELSE IF response.kind = "not_iterable"
    THEN [ret |-> "raised", ids |-> ids]
    ELSE LET acc == ids \cup ToSet(response.ids) IN
         IF response.total = BadTotal
         THEN [ret |-> "raised", ids |-> acc]
         ELSE IF IsLastPage(p, TotalOf(response)) \/ ReachedSafetyLimit(p)
         THEN [ret |-> "returned", ids |-> acc]
         ELSE PaginateFrom(p + 1, acc, script)

get_product_variant_ids_from_category(script) == PaginateFrom(1, {}, script)

\* What _make_request returns for the category tree.
ScrapeTreeResponses ==
    {[kind |-> k, food |-> [children |-> <<>>]] : k \in {"failed", "tree_no_children"}}
      \cup {[kind |-> "food",
             food |-> [children |->
                 <<[path |-> RootCategory \o <<"/dairy">>, children |-> <<>>],
                   [path |-> RootCategory \o <<"-extra">>, children |-> <<>>]>>]]}

RECURSIVE SetToSeq(_)
SetToSeq(S) ==
    IF S = {} THEN <<>>
    ELSE LET x == CHOOSE x \in S : TRUE IN <<x>> \o SetToSeq(S \ {x})

Reverse(list) == [k \in 1..Len(list) |-> list[Len(list) + 1 - k]]

\* Mutant: the converted identifiers are listed without passing through a set.
ArticleIdListsNoSet(ids) ==
    LET list == SetToSeq(ids)
        converted == [k \in 1..Len(list) |-> convert_variant_to_article_id(list[k])]
    IN {converted, Reverse(converted)}

\* list(set(convert_variant_to_article_id(vid) for vid in variant_ids)): the
\* distinct article identifiers in an order the set decides.
ArticleIdLists(ids) ==
    LET list == SetToSeq({convert_variant_to_article_id(vid) : vid \in ids})
    IN {list, Reverse(list)}

\* The raw records a detail response can hold: one with a barcode, one whose
\* categories are ill-typed, one without variants.
GoodArticle ==
    [variants |-> <<[bundles |-> <<[eanNumber |-> <<[number |-> "5901234123457"]>>,
                                    gtins |-> <<>>, description |-> "Milk",
                                    ill_typed |-> FALSE, table |-> NoTable]>>]>>]
IllTypedArticle ==
    [variants |-> <<[bundles |-> <<[eanNumber |-> <<[number |-> "5901234123457"]>>,
                                    gtins |-> <<>>, description |-> "Milk",
                                    ill_typed |-> TRUE, table |-> NoTable]>>]>>]
ScrapeArticles == {GoodArticle, IllTypedArticle, NoArticle}

\* What get_product_details_batch returns: None ("failed"), JSON without
\* 'result' ("no_result"), a 'result' that is no mapping ("result_not_mapping"),
\* or a 'result' with the raw records as its values, in their order.
DetailResponses ==
    {[kind |-> k, records |-> <<>>] : k \in {"failed", "no_result", "result_not_mapping"}}
      \cup [kind : {"result"}, records : SeqsUpTo(ScrapeArticles, MaxBatchRecords)]

\* Mutant: an exception inside extract_product_data leaves the method.
ExtractionPropagates(article) ==
    IF article.variants # <<>> /\ article.variants[1].bundles # <<>>
       /\ article.variants[1].bundles[1].ill_typed
    THEN [ret |-> "raised", value |-> NoProduct]
    ELSE [ret |-> "returned", value |-> extract_product_data(article)]

\* The call of extract_product_data in the loop: the method's try block
\* covers its whole body, so the call returns.
ExtractionOf(article) == [ret |-> "returned", value |-> extract_product_data(article)]

\* The loop over batch_response['result']: the records appended, or that an
\* exception left the loop.
RECURSIVE ExtractAll(_)
ExtractAll(records) ==
    IF records = <<>> THEN [ret |-> "returned", products |-> <<>>]
    ELSE LET first == ExtractionOf(Head(records)) IN
         IF first.ret = "raised" THEN [ret |-> "raised", products |-> <<>>]
         ELSE LET rest == ExtractAll(Tail(records)) IN
              [ret |-> rest.ret,
               products |-> IF rest.ret = "raised" THEN <<>>
                            ELSE IF first.value.rejected THEN rest.products
                            ELSE <<first.value>> \o rest.products]

ScrapeInit ==
    /\ metro_source = {}
    /\ food_item_sources = {}
    /\ ImporterIdle
    /\ PaginatorIdle
    /\ WalkerIdle
    /\ ExtractorIdle
    /\ ConverterIdle
    /\ sc_pc = "categories"
    /\ scan_list = <<>>
    /\ variant_ids = {}
    /\ article_ids = <<>>
    /\ batch_i = 0
    /\ all_products = <<>>
    /\ batch_response = NoBatchResponse
    /\ scanned = <<>>
    /\ detail_requests = <<>>
    /\ rejected_before = FALSE

otherVars == <<importVars, pageVars, treeVars, extractVars, convertVars>>

\* get_all_product_variant_ids up to its loop: the call of
\* get_food_subcategories, whose exception nothing catches.
GetCategories ==
    /\ sc_pc = "categories"
    /\ \E response \in ScrapeTreeResponses :
         LET found == get_food_subcategories(response) IN
         IF found.ret = "raised"
         THEN sc_pc' = "raised" /\ UNCHANGED scan_list
         ELSE sc_pc' = "discover" /\ scan_list' = found.value
    /\ UNCHANGED <<otherVars, variant_ids, article_ids, batch_i, all_products,
                   batch_response, scanned, detail_requests, rejected_before>>

\* One pass of the loop over the categories: the identifiers of a category
\* that returned are added, an exception is logged and the loop goes on.
ScanCategory ==
    /\ sc_pc = "discover"
    /\ Len(scanned) < Len(scan_list)
    /\ \E script \in CategoryScripts :
         LET category_ids == get_product_variant_ids_from_category(script) IN
         /\ scanned' = Append(scanned, category_ids)
         /\ variant_ids' = IF category_ids.ret = "returned"
                           THEN variant_ids \cup category_ids.ids
                           ELSE variant_ids
    /\ UNCHANGED <<otherVars, sc_pc, scan_list, article_ids, batch_i, all_products,
                   batch_response, detail_requests, rejected_before>>

\* The loop over the categories is over: return [] without identifiers,
\* else convert them and remove the duplicates.
ConvertIds ==
    /\ sc_pc = "discover"
    /\ Len(scanned) = Len(scan_list)
    /\ IF variant_ids = {}
       THEN sc_pc' = "done" /\ UNCHANGED article_ids
       ELSE /\ sc_pc' = "batches"
            /\ article_ids' \in ArticleIdLists(variant_ids)
    /\ UNCHANGED <<otherVars, scan_list, variant_ids, batch_i, all_products,
                   batch_response, scanned, detail_requests, rejected_before>>

\* One pass of the loop over the batches.
FetchBatch ==
    /\ sc_pc = "batches"
    /\ batch_i < Len(article_ids)
    /\ detail_requests' =
          Append(detail_requests,
                 SubSeq(article_ids, batch_i + 1,
                        Min(batch_i + DetailBatchSize, Len(article_ids))))
    /\ batch_i' = batch_i + DetailBatchSize
    /\ \E response \in DetailResponses :
         /\ batch_response' = response
         /\ IF response.kind \in {"failed", "no_result"}
            THEN UNCHANGED <<sc_pc, all_products, rejected_before>>
            ELSE IF response.kind = "result_not_mapping"
            THEN \* batch_response['result'].items() raises AttributeError
                 sc_pc' = "raised" /\ UNCHANGED <<all_products, rejected_before>>
            ELSE LET extracted == ExtractAll(response.records) IN
                 IF extracted.ret = "raised"
                 THEN sc_pc' = "raised" /\ UNCHANGED <<all_products, rejected_before>>
                 ELSE /\ all_products' = all_products \o extracted.products
                      /\ rejected_before' =
                            (rejected_before \/
                               Len(extracted.products) < Len(response.records))
                      /\ UNCHANGED sc_pc
    /\ UNCHANGED <<otherVars, scan_list, variant_ids, article_ids, scanned>>

\* The loop over the batches is over: return all_products.
ScrapeReturn ==
    /\ sc_pc = "batches"
    /\ batch_i >= Len(article_ids)
    /\ sc_pc' = "done"
    /\ UNCHANGED <<otherVars, scan_list, variant_ids, article_ids, batch_i,
                   all_products, batch_response, scanned, detail_requests,
                   rejected_before>>

ScrapeNext ==
    \/ GetCategories
    \/ ScanCategory
    \/ ConvertIds
    \/ FetchBatch
    \/ ScrapeReturn

ScrapeSpec == ScrapeInit /\ [][ScrapeNext]_vars

-----------------------------------------------------------------------------
(* Properties of the scrape                                                *)

NumBatches(list) == (Len(list) + DetailBatchSize - 1) \div DetailBatchSize

\* The k-th slice of 20 of a list.
BatchAt(list, k) ==
    SubSeq(list, DetailBatchSize * (k - 1) + 1, Min(DetailBatchSize * k, Len(list)))

PastDiscovery == sc_pc \in {"batches", "done"} \/ article_ids # <<>>

\* C12: whatever ends the pagination of a category (a failed request, a
\* payload without or with an ill-typed result list or page total), the
\* identifiers it had accumulated are among those of the scrape and every
\* category is scanned; every batch is requested once, in order, whatever
\* the earlier detail requests returned, and all of them before the return.
C12_SkipAndContinue ==
    /\ \A k \in 1..Len(scanned) : scanned[k].ids \subseteq variant_ids
    /\ (PastDiscovery => Len(scanned) = Len(scan_list))
    /\ \A k \in 1..Len(detail_requests) : detail_requests[k] = BatchAt(article_ids, k)
    /\ (batch_response.kind \in {"failed", "no_result"} => sc_pc # "raised")
    /\ (sc_pc = "done" /\ article_ids # <<>>
          => Len(detail_requests) = NumBatches(article_ids))

\* What the code does: the identifiers of a category are kept when its
\* pagination returned, and every category is scanned.
RetainedWhenReturned ==
    /\ \A k \in 1..Len(scanned) :
          scanned[k].ret = "returned" => scanned[k].ids \subseteq variant_ids
    /\ (PastDiscovery => Len(scanned) = Len(scan_list))
    /\ \A k \in 1..Len(detail_requests) : detail_requests[k] = BatchAt(article_ids, k)
    /\ (sc_pc = "done" /\ article_ids # <<>>
          => Len(detail_requests) = NumBatches(article_ids))

\* A detail request that failed adds no record and the loop goes on.
DetailFailureSkips ==
    [][(detail_requests' # detail_requests /\
          batch_response'.kind \in {"failed", "no_result"})
         => all_products' = all_products /\ sc_pc' = "batches"]_vars

\* A category raised after it had accumulated identifiers, a later category
\* was scanned, and a detail request failed before a later one was made.
SkippedAndContinued ==
    /\ Len(scanned) = 2
    /\ scanned[1].ret = "raised"
    /\ scanned[1].ids # {}
    /\ scanned[2].ret = "returned"
    /\ Len(detail_requests) >= 2
    /\ all_products = <<>>
    /\ batch_response.kind = "result"

\* The flat records of the raw records that are well-typed and have a barcode.
RECURSIVE FlatRecordsOf(_)
FlatRecordsOf(records) ==
    IF records = <<>> THEN <<>>
    ELSE (IF HasBarcode(Head(records)) THEN <<extract_product_data(Head(records))>>
          ELSE <<>>) \o FlatRecordsOf(Tail(records))

\* C13: no exception leaves the scrape while the records of a batch are
\* extracted; the flat records of a batch's good records are appended in
\* their order, whatever the other records of the batch are, the loop goes
\* on, and every batch has been requested at the return.
C13_ExtractionNeverAborts ==
    /\ [](sc_pc = "raised" => batch_response.kind # "result")
    /\ [][(detail_requests' # detail_requests /\ batch_response'.kind = "result")
            => /\ all_products' = all_products \o FlatRecordsOf(batch_response'.records)
               /\ sc_pc' = "batches"]_vars
    /\ [](sc_pc = "done" /\ article_ids # <<>>
            => Len(detail_requests) = NumBatches(article_ids))

\* After a batch with a record that gave no flat record, the good record of
\* the same batch is in the result and the next batch was extracted too.
C13_Witness ==
    /\ sc_pc = "batches"
    /\ Len(detail_requests) = 2
    /\ rejected_before
    /\ batch_response = [kind |-> "result", records |-> <<GoodArticle>>]
    /\ Len(all_products) = 2

NoDuplicates(list) ==
    \A j, k \in 1..Len(list) : list[j] = list[k] => j = k

RECURSIVE Flatten(_)
Flatten(lists) ==
    IF lists = <<>> THEN <<>> ELSE Head(lists) \o Flatten(Tail(lists))

\* C15: the list of article identifiers holds every converted variant
\* identifier once; the detail requests made so far are consecutive slices
\* of it of at most 20 identifiers, no identifier is in two of them, and at
\* the return they cover the list.
C15_BatchesPartitionArticles ==
    article_ids # <<>> =>
        /\ NoDuplicates(article_ids)
        /\ ToSet(article_ids) =
              {convert_variant_to_article_id(vid) : vid \in variant_ids}
        /\ \A k \in 1..Len(detail_requests) :
              Len(detail_requests[k]) \in 1..DetailBatchSize
        /\ Flatten(detail_requests)
              = SubSeq(article_ids, 1, Len(Flatten(detail_requests)))
        /\ \A j, k \in 1..Len(detail_requests) :
              j # k => ToSet(detail_requests[j]) \cap ToSet(detail_requests[k]) = {}
        /\ (sc_pc = "done" => Flatten(detail_requests) = article_ids)

\* Two batches, the last one short, of fewer articles than variants.
C15_Witness ==
    /\ sc_pc = "done"
    /\ Len(detail_requests) = 2
    /\ Len(detail_requests[1]) = DetailBatchSize
    /\ Len(detail_requests[2]) < DetailBatchSize
    /\ Cardinality(variant_ids) > Len(article_ids)
    /\ PlainId \in ToSet(article_ids)

=============================================================================
